---- MODULE Spec2Model ----
(***************************************************************************)
(* STK500v2 programmer (Cura/avr_isp/stk500v2.py): frame encoder, the      *)
(* resynchronizing receive state machine, and the connection / flash       *)
(* operations built on them.                                               *)
(*                                                                         *)
(* The file is Python 3 (import winreg, relative imports): struct.pack     *)
(* yields a bytes object, iterating it yields ints, and ord() of an int    *)
(* raises TypeError.                                                       *)
(***************************************************************************)
EXTENDS Integers, Sequences, FiniteSets, TLC

(***************************************************************************)
(* Bounds of the model                                                     *)
(***************************************************************************)
\* longest payload enumerated exhaustively over SampleBytes
MaxLen == 2
\* ticks per time unit of the serial read timeout
Resolution == 2
\* elapsed-time counter saturates this many ticks past the read timeout
ElapsedSlack == 2
\* noise bytes counted up to this number
MaxNoise == 3
\* methods called on one object
MaxCalls == 3
\* longest flash image enumerated
MaxImage == 3
\* programmer threads started by main()
MaxConns == 3
\* changes of turn between the threads counted up to this number
MaxSwitch == 3
\* a status byte other than 0x00 that the device answers with
FailedStatus == 192

(***************************************************************************)
(* Program constants                                                       *)
(***************************************************************************)
MESSAGE_START == 27      \* 0x1B
TOKEN == 14              \* 0x0E
ConnectTimeout == 1      \* Serial(..., timeout=1, ...)
ExtendedLimit == 65535   \* 0xFFFF

CMD_SIGN_ON == 1
CMD_LOAD_ADDRESS == 6
CMD_ENTER_PROGMODE_ISP == 16
CMD_LEAVE_PROGMODE_ISP == 17
CMD_PROGRAM_FLASH_ISP == 19
CMD_SPI_MULTI == 29
STATUS_CMD_OK == 0

Byte == 0 .. 255
SampleBytes == {0, TOKEN, MESSAGE_START}
NoiseBytes == {0, TOKEN, 255}

Min(a, b) == IF a < b THEN a ELSE b

(***************************************************************************)
(* Byte arithmetic                                                         *)
(***************************************************************************)
\* the ^ operator of Python on two bytes, bit by bit
XorBits(a, b) ==
    LET bit(k) == (((a \div (2 ^ k)) % 2) + ((b \div (2 ^ k)) % 2)) % 2
    IN  bit(0) + 2 * bit(1) + 4 * bit(2) + 8 * bit(3)
        + 16 * bit(4) + 32 * bit(5) + 64 * bit(6) + 128 * bit(7)

\* the same, tabulated once
XorTable == [a \in Byte |-> [b \in Byte |-> XorBits(a, b)]]

Xor(a, b) == XorTable[a][b]

\* the | operator of Python on (b << 8) and a byte
Or16(hi, b) ==
    LET bit(k) == IF ((hi \div (2 ^ k)) % 2) + ((b \div (2 ^ k)) % 2) > 0 THEN 1 ELSE 0
        RECURSIVE sum(_)
        sum(k) == IF k > 15 THEN 0 ELSE (2 ^ k) * bit(k) + sum(k + 1)
    IN  sum(0)

(***************************************************************************)
(* sendMessage: the encoder (lines 101-107)                                *)
(***************************************************************************)
\* struct.pack(">BBHB", 0x1B, seq, len(data), 0x0E)
Header(seq, data) ==
    << MESSAGE_START, seq, Len(data) \div 256, Len(data) % 256, TOKEN >>

\* checksum = 0; for c in message: checksum ^= ord(c)
\* c is an int, so the first pass through the loop raises; only for an empty
\* message the loop body is never entered
Checksum(message) ==
    IF message = << >>
    THEN [raised |-> "", value |-> 0]
    ELSE [raised |-> "TypeError", value |-> 0]

\* lines 101-107: the byte string for serial.write, or the exception raised
\* on the way to it
EncodeMessage(seq, data) ==
    LET message == Header(seq, data) \o data
        c == Checksum(message)
    IN  IF c.raised # ""
        THEN [raised |-> c.raised, frame |-> << >>]
        ELSE [raised |-> "", frame |-> Append(message, c.value)]

\* self.seq = (self.seq + 1) & 0xFF
NextSeq(s) == (s + 1) % 256

\* sendMessage up to its last line (lines 101-113): the exception raised, the
\* sequence number left behind and the frames handed to serial.write
SendMessage(s, data) ==
    LET enc == EncodeMessage(s, data)
    IN  IF enc.raised # ""
        THEN [raised |-> enc.raised, seq |-> s, wrote |-> << >>]
        ELSE [raised |-> "", seq |-> NextSeq(s), wrote |-> << enc.frame >>]

(***************************************************************************)
(* recvMessage: one iteration of the while loop for a byte b (123-152)     *)
(***************************************************************************)
\* locals of recvMessage at entry (msgSize and data are unbound until set)
RecvEntry ==
    [state |-> "Start", checksum |-> 0, msgSize |-> 0, data |-> << >>, ret |-> FALSE]

\* the marker test inverted
RecvStart_Inverted(p, b) ==
    IF b # MESSAGE_START
    THEN [p EXCEPT !.state = "GetSeq", !.checksum = MESSAGE_START]
    ELSE p

RecvStart(p, b) ==
    IF b = MESSAGE_START
    THEN [p EXCEPT !.state = "GetSeq", !.checksum = MESSAGE_START]
    ELSE p

RecvData(p, b) ==
    LET d == Append(p.data, b)
    IN  IF Len(d) = p.msgSize
        THEN [p EXCEPT !.data = d, !.state = "Checksum"]
        ELSE [p EXCEPT !.data = d]

RecvStep(p0, b) ==
    LET p == [p0 EXCEPT !.checksum = Xor(p0.checksum, b)]
    IN  CASE p.state = "Start"    -> RecvStart(p, b)
          [] p.state = "GetSeq"   -> [p EXCEPT !.state = "MsgSize1"]
          [] p.state = "MsgSize1" -> [p EXCEPT !.msgSize = b * 256, !.state = "MsgSize2"]
          [] p.state = "MsgSize2" -> [p EXCEPT !.msgSize = Or16(p.msgSize, b), !.state = "Token"]
          [] p.state = "Token"    ->
                IF b # TOKEN
                THEN [p EXCEPT !.state = "Start"]
                ELSE [p EXCEPT !.state = "Data", !.data = << >>]
          [] p.state = "Data"     -> RecvData(p, b)
          [] p.state = "Checksum" ->
                IF p.checksum # 0
                THEN [p EXCEPT !.state = "Start"]
                ELSE [p EXCEPT !.ret = TRUE]

(***************************************************************************)
(* The device: the frames it puts on the line, in the format recvMessage   *)
(* parses (lines 126-150)                                                  *)
(***************************************************************************)
\* checksum ^= b over stream[lo..hi] (line 123), grouped as a balanced tree:
\* ^ is associative, and the grouping keeps the evaluation depth logarithmic
RECURSIVE XorOver(_, _, _)
XorOver(stream, lo, hi) ==
    IF lo > hi THEN 0
    ELSE IF lo = hi THEN Xor(0, stream[lo])
    ELSE LET mid == (lo + hi) \div 2
         IN  Xor(XorOver(stream, lo, mid), XorOver(stream, mid + 1, hi))

\* start marker, sequence number, 16-bit length, token, payload, and the byte
\* that brings the running XOR to zero
WireFrame(s, payload) ==
    LET body == << MESSAGE_START, s, Len(payload) \div 256, Len(payload) % 256, TOKEN >>
                \o payload
    IN  Append(body, XorOver(body, 1, Len(body)))

(***************************************************************************)
(* Variables                                                               *)
(***************************************************************************)
VARIABLES
    \* --- receive loop driven byte by byte over a given line ---
    cin,        \* the inputs of the run: scenario, sequence numbers, payloads
    cphase,     \* "init" | "recv" | "done"
    line,       \* bytes waiting in the serial input buffer
    parser,     \* locals of recvMessage: state, checksum, msgSize, data
    out,        \* how the run ended: returned data or the exception raised
    elapsed,    \* ticks since recvMessage was entered (saturating)
    lastWait,   \* ticks the last serial.read() blocked
    nread       \* bytes read so far in the noise scenario (saturating)

codecVars == << cin, cphase, line, parser, out, elapsed, lastWait, nread >>

(***************************************************************************)
(* The line: inputs of the receive loop                                    *)
(***************************************************************************)
Payloads(n) == UNION { [1 .. k -> SampleBytes] : k \in 0 .. n }

\* payloads whose length needs both length bytes, up to 2047 bytes
LongPayloads == { [i \in 1 .. k |-> (i * 7) % 256] : k \in {255, 256, 257, 2047} }

NoCorruption == [kind |-> "none", arg |-> 0]

Corruptions ==
    { [kind |-> "checksum", arg |-> m] : m \in {1, 255} }
    \cup { [kind |-> "token", arg |-> t] : t \in {0, 15, MESSAGE_START} }

\* a frame with its checksum byte flipped or its token replaced
Corrupt(frame, c) ==
    CASE c.kind = "checksum" -> [frame EXCEPT ![Len(frame)] = Xor(@, c.arg)]
      [] c.kind = "token"    -> [frame EXCEPT ![5] = c.arg]
      [] OTHER               -> frame

\* roundtrip: sendMessage's encoder, then recvMessage on what it wrote;
\* frame: one frame sent by the device; resync: a corrupted frame and a valid
\* one sent by the device; noise: bytes other than the start marker
CodecInputs ==
    { [scen |-> sc, seq |-> s, payload |-> d,
       bseq |-> 0, bpayload |-> << >>, corrupt |-> NoCorruption] :
         sc \in {"roundtrip", "frame"},
         s \in {0, 1, MESSAGE_START, 255}, d \in Payloads(MaxLen) \cup LongPayloads }
    \cup
    { [scen |-> "resync", seq |-> 2, payload |-> d,
       bseq |-> 1, bpayload |-> bd, corrupt |-> c] :
         d \in Payloads(MaxLen), bd \in Payloads(MaxLen), c \in Corruptions }
    \cup
    { [scen |-> "noise", seq |-> 0, payload |-> << >>,
       bseq |-> 0, bpayload |-> << >>, corrupt |-> NoCorruption] }

\* the bytes that reach the input buffer
LineOf(c) ==
    CASE c.scen = "roundtrip" -> EncodeMessage(c.seq, c.payload).frame
      [] c.scen = "frame"     -> WireFrame(c.seq, c.payload)
      [] c.scen = "resync"    ->
            Corrupt(WireFrame(c.bseq, c.bpayload), c.corrupt)
            \o WireFrame(c.seq, c.payload)
      [] OTHER                -> << >>

\* serial.timeout in ticks
TimeoutTicks == ConnectTimeout * Resolution

ElapsedCap == TimeoutTicks + ElapsedSlack

Running == [kind |-> "running", data |-> << >>]
Returned(d) == [kind |-> "data", data |-> d]
RaisedTimeout == [kind |-> "Timeout", data |-> << >>]
RaisedError(e) == [kind |-> e, data |-> << >>]

(***************************************************************************)
(* The programmer object and its serial port                               *)
(***************************************************************************)
VARIABLES
    serial,      \* self.serial: 0 for None, else the id of the port held
    seq,         \* self.seq
    ports,       \* every port opened so far: [open, timeout], indexed by id
    released,    \* ids of the ports leaveISP has returned to its caller
    chip,        \* self.chip: [pageSize, pageCount]
    hasCallback, \* self.progressCallback is not None
    call,        \* the method running: [op, pc]
    req,         \* data given to the last sendMessage
    tx,          \* the frames written by the method running (or last run)
    progress,    \* the progressCallback invocations of that method
    result,      \* how the last method ended: [op, status, err, value]
    pre,         \* the object when the method was called, its argument, how
                 \* the device is set to answer, and the call before
    ncalls       \* methods called so far

protoVars ==
    << serial, seq, ports, released, chip, hasCallback, call, req, tx,
       progress, result, pre, ncalls >>

(***************************************************************************)
(* Programmer objects side by side, one per port (runProgrammer threads)   *)
(***************************************************************************)
VARIABLES
    conns,       \* per thread, its own object and port: [serial, open,
                 \* timeout, seq, pc, raised, tx]
    hist,        \* per thread, the inputs its steps have consumed
    turns        \* [last, switches]: whose step came last, and how often the
                 \* turn has passed from one thread to another

pairVars == << conns, hist, turns >>

vars == << codecVars, protoVars, pairVars >>

\* the payload of connect's second sendMessage (line 40)
EnterProgMode == << 16, 200, 100, 25, 32, 0, 83, 3, 172, 83, 0, 0 >>

Idle == [op |-> "idle", pc |-> ""]

NoResult == [op |-> "none", status |-> "none", err |-> "", value |-> 0]
Returns(o, v) == [op |-> o, status |-> "ok", err |-> "", value |-> v]
Raises(o, msg, v) == [op |-> o, status |-> "error", err |-> msg, value |-> v]

\* isConnected(): self.serial is not None
IsConnected == serial # 0

(***************************************************************************)
(* The device: how it is set to answer the requests of a call              *)
(***************************************************************************)
NoAnswer == [answers |-> FALSE, payload |-> << >>]
Answer(p) == [answers |-> TRUE, payload |-> p]

StatusAnswers(cmd) ==
    { NoAnswer, Answer(<< cmd, STATUS_CMD_OK >>), Answer(<< cmd, FailedStatus >>) }

Quiet == [sync |-> NoAnswer, enter |-> NoAnswer, leave |-> NoAnswer, readback |-> << >>]

ConnectDevices ==
    { [Quiet EXCEPT !.sync = s, !.enter = e] :
        s \in {NoAnswer, Answer(<< CMD_SIGN_ON, STATUS_CMD_OK >>)},
        e \in StatusAnswers(CMD_ENTER_PROGMODE_ISP) \ {NoAnswer} }

LeaveDevices == { [Quiet EXCEPT !.leave = l] : l \in StatusAnswers(CMD_LEAVE_PROGMODE_ISP) }

\* flash images and what the device holds when it is read back
Image(n) == [k \in 1 .. n |-> (k * 3) % 256]
Images == { Image(n) : n \in 0 .. MaxImage }

Altered(fd, J) == [k \in 1 .. Len(fd) |-> IF k \in J THEN (fd[k] + 1) % 256 ELSE fd[k]]

ReadBacks(fd) ==
    { Altered(fd, J) : J \in { X \in SUBSET (1 .. Len(fd)) :
                                 Cardinality(X) <= 1 \/ X = 1 .. Len(fd) } }

VerifyDevices(fd) == { [Quiet EXCEPT !.readback = rb] : rb \in ReadBacks(fd) }

\* chip descriptors: flash of 0xFFFE, 0x10000 and 0x10000 bytes
Chips ==
    { [pageSize |-> 1, pageCount |-> 32767],
      [pageSize |-> 1, pageCount |-> 32768],
      [pageSize |-> 128, pageCount |-> 256] }

\* the call before, as the next call finds it
Previous == [op |-> result.op, flashData |-> pre.flashData, progress |-> progress]

\* the object as a method finds it, the image the method is given, the
\* device's answers and the call before
Snapshot(fd, d) ==
    [serial |-> serial, seq |-> seq, ports |-> ports, released |-> released,
     flashData |-> fd, device |-> d, prev |-> Previous]

\* the handle dropped, the port left open
ClosedPorts_Keep(s) == ports

\* close(): self.serial.close(); self.serial = None
ClosedPorts(s) ==
    IF s # 0 THEN [ports EXCEPT ![s].open = FALSE] ELSE ports

(***************************************************************************)
(* A method reaches a sendMessage (lines 100-114)                          *)
(***************************************************************************)
\* the method o calls sendMessage(data); an exception leaves the method at
\* once, otherwise the method blocks in recvMessage (line 114)
Send(o, data) ==
    LET snd == SendMessage(seq, data)
    IN  /\ req' = data
        /\ seq' = snd.seq
        /\ tx' = snd.wrote
        /\ progress' = << >>
        /\ IF snd.raised # ""
           THEN call' = Idle /\ result' = Raises(o, snd.raised, 0)
           ELSE call' = [op |-> o, pc |-> "recv"] /\ result' = NoResult

\* a method is called on the object at rest
Called(fd, d) ==
    /\ call = Idle
    /\ ncalls < MaxCalls
    /\ ncalls' = ncalls + 1
    /\ pre' = Snapshot(fd, d)
    /\ UNCHANGED << codecVars, pairVars >>

(***************************************************************************)
(* connect, close, leaveISP, sendISP (lines 20-66)                         *)
(***************************************************************************)
\* how Serial(...) ends (lines 23-28)
OpenOutcomes ==
    { [kind |-> "ok", portIsStr |-> TRUE],
      [kind |-> "SerialException", portIsStr |-> TRUE] }
    \cup { [kind |-> "other", portIsStr |-> b] : b \in BOOLEAN }

\* the exception connect raises when the open fails (lines 25-28); the second
\* handler concatenates port to a string
OpenError(how) ==
    CASE how.kind = "SerialException" -> "Failed to open serial port"
      [] how.kind = "other" /\ how.portIsStr ->
            "Unexpected error while connecting to serial port"
      [] OTHER -> "TypeError"

\* connect up to self.seq = 1 (lines 21-29)
CallConnect ==
    /\ \E d \in ConnectDevices : Called(<< >>, d)
    /\ \E how \in OpenOutcomes :
        LET closed == ClosedPorts(serial)
        IN  IF how.kind = "ok"
            THEN /\ ports' = Append(closed, [open |-> TRUE, timeout |-> ConnectTimeout])
                 /\ serial' = Len(closed) + 1
                 /\ seq' = 1
                 /\ call' = [op |-> "connect", pc |-> "reset"]
                 /\ result' = NoResult
            ELSE /\ ports' = closed
                 /\ serial' = 0
                 /\ seq' = seq
                 /\ call' = Idle
                 /\ result' = Raises("connect", OpenError(how), 0)
    /\ req' = << >>
    /\ tx' = << >>
    /\ progress' = << >>
    /\ UNCHANGED << released, chip, hasCallback >>

\* the reset of the controller, the flushes and self.sendMessage([1])
\* (lines 32-39)
ConnectSync ==
    /\ call = [op |-> "connect", pc |-> "reset"]
    /\ Send("connect", << CMD_SIGN_ON >>)
    /\ UNCHANGED << serial, ports, released, chip, hasCallback, pre, ncalls,
                    codecVars, pairVars >>

\* close() (lines 45-48)
CallClose ==
    /\ Called(<< >>, Quiet)
    /\ ports' = ClosedPorts(serial)
    /\ serial' = 0
    /\ req' = << >>
    /\ tx' = << >>
    /\ progress' = << >>
    /\ result' = Returns("close", 0)
    /\ UNCHANGED << seq, released, chip, hasCallback, call >>

\* leaveISP() (lines 52-59)
CallLeaveISP ==
    /\ \E d \in LeaveDevices : Called(<< >>, d)
    /\ IF serial # 0
       THEN Send("leaveISP", << CMD_LEAVE_PROGMODE_ISP >>)
       ELSE /\ result' = Returns("leaveISP", 0)
            /\ req' = << >>
            /\ tx' = << >>
            /\ progress' = << >>
            /\ UNCHANGED << seq, call >>
    /\ UNCHANGED << serial, ports, released, chip, hasCallback >>

\* the arguments sendISP is given
IspData == { << >>, << 48, 0, 0, 0 >> }

\* sendISP(data) (lines 64-66); data[0..3] are read before the call
CallSendISP ==
    /\ Called(<< >>, Quiet)
    /\ \E data \in IspData :
        IF Len(data) < 4
        THEN /\ result' = Raises("sendISP", "IndexError", 0)
             /\ req' = << >>
             /\ tx' = << >>
             /\ progress' = << >>
             /\ UNCHANGED << seq, call >>
        ELSE Send("sendISP", << CMD_SPI_MULTI, 4, 4, 0 >> \o SubSeq(data, 1, 4))
    /\ UNCHANGED << serial, ports, released, chip, hasCallback >>

\* sendMessage(data) called from outside (lines 100-114)
CallSendMessage ==
    /\ Called(<< >>, Quiet)
    /\ \E data \in Payloads(1) : Send("sendMessage", data)
    /\ UNCHANGED << serial, ports, released, chip, hasCallback >>

(***************************************************************************)
(* writeFlash (lines 68-81), verifyFlash (lines 83-98)                     *)
(***************************************************************************)
WritePageSize(c) == c.pageSize * 2

WriteFlashSize(c) == WritePageSize(c) * c.pageCount

\* lines 72-75
WriteLoadAddress(c) ==
    IF WriteFlashSize(c) > ExtendedLimit
    THEN << CMD_LOAD_ADDRESS, 128, 0, 0, 0 >>
    ELSE << CMD_LOAD_ADDRESS, 0, 0, 0, 0 >>

\* writeFlash(flashData) up to its first sendMessage (lines 70-75)
CallWriteFlash ==
    /\ \E fd \in Images : Called(fd, Quiet)
    /\ Send("writeFlash", WriteLoadAddress(chip))
    /\ UNCHANGED << serial, ports, released, chip, hasCallback >>

VerifyFlashSize(c) == c.pageSize * 2 * c.pageCount

\* lines 86-89
VerifyLoadAddress(c) ==
    IF VerifyFlashSize(c) > ExtendedLimit
    THEN << CMD_LOAD_ADDRESS, 128, 0, 0, 0 >>
    ELSE << CMD_LOAD_ADDRESS, 0, 0, 0, 0 >>

\* verifyFlash(flashData) up to its first sendMessage (lines 85-89)
CallVerifyFlash ==
    /\ \E fd \in Images : \E d \in VerifyDevices(fd) : Called(fd, d)
    /\ Send("verifyFlash", VerifyLoadAddress(chip))
    /\ UNCHANGED << serial, ports, released, chip, hasCallback >>

(***************************************************************************)
(* Threads side by side: main() starts one runProgrammer thread per port,  *)
(* each with an object and a port of its own (lines 169-183)               *)
(***************************************************************************)
Conns == 1 .. MaxConns

\* Stk500v2() (lines 14-18) and the port it will open
ObjNew ==
    [serial |-> 0, open |-> FALSE, timeout |-> 0, seq |-> 1, pc |-> "new",
     raised |-> "", tx |-> << >>]

\* programmer = Stk500v2() (line 171): the object of thread c
Self(os, c) == os[c]

\* one step of runProgrammer on the object o with the input in: connect up
\* to line 29, then connect up to line 39; an exception ends the thread, so
\* that programChip and close (lines 173-174) are not reached
ConnStep(o, in) ==
    CASE o.pc = "new" ->
            IF in.kind = "ok"
            THEN [o EXCEPT !.serial = 1, !.open = TRUE, !.timeout = ConnectTimeout,
                           !.seq = 1, !.pc = "reset"]
            ELSE [o EXCEPT !.pc = "raised", !.raised = OpenError(in)]
      [] o.pc = "reset" ->
            LET snd == SendMessage(o.seq, << CMD_SIGN_ON >>)
            IN  IF snd.raised # ""
                THEN [o EXCEPT !.pc = "raised", !.raised = snd.raised,
                               !.seq = snd.seq, !.tx = @ \o snd.wrote]
                ELSE [o EXCEPT !.pc = "recv", !.seq = snd.seq, !.tx = @ \o snd.wrote]
      [] OTHER -> o

\* the inputs of the step at pc
PairInputs(pc) ==
    CASE pc = "new"   -> OpenOutcomes
      [] pc = "reset" -> { [kind |-> "ok", portIsStr |-> TRUE] }
      [] OTHER        -> {}

\* the object of a thread that runs alone and is given the inputs h
RECURSIVE SoloRun(_)
SoloRun(h) ==
    IF h = << >> THEN ObjNew
    ELSE ConnStep(SoloRun(SubSeq(h, 1, Len(h) - 1)), h[Len(h)])

PairIdle ==
    /\ conns = [c \in Conns |-> ObjNew]
    /\ hist = [c \in Conns |-> << >>]
    /\ turns = [last |-> 0, switches |-> 0]

\* the thread c takes its next step
PairStep(c) ==
    /\ \E in \in PairInputs(conns[c].pc) :
        /\ conns' = [conns EXCEPT ![c] = ConnStep(Self(conns, c), in)]
        /\ hist' = [hist EXCEPT ![c] = Append(@, in)]
    /\ turns' = [last |-> c,
                 switches |-> IF turns.last \notin {0, c}
                              THEN Min(turns.switches + 1, MaxSwitch)
                              ELSE turns.switches]
    /\ UNCHANGED << codecVars, protoVars >>

PairNext == \E c \in Conns : PairStep(c)

(***************************************************************************)
(* The specifications                                                      *)
(***************************************************************************)
\* __init__ (lines 14-18); the chip descriptor and the callback are set by
\* the caller before flashing
ProtoInit ==
    /\ serial = 0
    /\ seq = 1
    /\ ports = << >>
    /\ released = {}
    /\ chip \in Chips
    /\ hasCallback \in BOOLEAN
    /\ call = Idle
    /\ req = << >>
    /\ tx = << >>
    /\ progress = << >>
    /\ result = NoResult
    /\ pre = [serial |-> 0, seq |-> 1, ports |-> << >>, released |-> {},
              flashData |-> << >>, device |-> Quiet,
              prev |-> [op |-> "none", flashData |-> << >>, progress |-> << >>]]
    /\ ncalls = 0

\* the receive loop at rest while the object is exercised
CodecIdle ==
    /\ cin = [scen |-> "noise", seq |-> 0, payload |-> << >>,
              bseq |-> 0, bpayload |-> << >>, corrupt |-> NoCorruption]
    /\ cphase = "done"
    /\ line = << >>
    /\ parser = RecvEntry
    /\ out = Running
    /\ elapsed = 0
    /\ lastWait = 0
    /\ nread = 0

Init == ProtoInit /\ CodecIdle /\ PairIdle

Next ==
    \/ CallConnect
    \/ ConnectSync
    \/ CallClose
    \/ CallLeaveISP
    \/ CallSendISP
    \/ CallSendMessage
    \/ CallWriteFlash
    \/ CallVerifyFlash

Spec == Init /\ [][Next]_vars

(***************************************************************************)
(* The receive loop, one serial.read() per step                            *)
(***************************************************************************)
CodecInit ==
    /\ cin \in CodecInputs
    /\ cphase = "init"
    /\ line = << >>
    /\ parser = RecvEntry
    /\ out = Running
    /\ elapsed = 0
    /\ lastWait = 0
    /\ nread = 0

\* the bytes reach the line and recvMessage is entered; in the round trip
\* they are sendMessage's, whose exception ends the run
CodecSend ==
    /\ cphase = "init"
    /\ LET raised == IF cin.scen = "roundtrip"
                     THEN EncodeMessage(cin.seq, cin.payload).raised
                     ELSE ""
       IN  IF raised # ""
           THEN cphase' = "done" /\ out' = RaisedError(raised)
           ELSE cphase' = "recv" /\ out' = out
    /\ line' = LineOf(cin)
    /\ parser' = RecvEntry
    /\ UNCHANGED << cin, elapsed, lastWait, nread, protoVars, pairVars >>

\* s = self.serial.read() yields a byte: one pass through the loop body
Consume(b, d) ==
    LET q == RecvStep(parser, b)
    IN  /\ parser' = q
        /\ lastWait' = d
        /\ elapsed' = Min(elapsed + d, ElapsedCap)
        /\ IF q.ret
           THEN cphase' = "done" /\ out' = Returned(q.data)
           ELSE cphase' = "recv" /\ out' = out

\* a buffered byte is read at once
CodecReadByte ==
    /\ cphase = "recv"
    /\ cin.scen # "noise"
    /\ line # << >>
    /\ Consume(Head(line), 0)
    /\ line' = Tail(line)
    /\ UNCHANGED << cin, nread, protoVars, pairVars >>

\* a byte other than the start marker arrives before the read times out
CodecReadNoise ==
    /\ cphase = "recv"
    /\ cin.scen = "noise"
    /\ \E b \in NoiseBytes, d \in 0 .. TimeoutTicks - 1 : Consume(b, d)
    /\ nread' = Min(nread + 1, MaxNoise)
    /\ UNCHANGED << cin, line, protoVars, pairVars >>

\* len(s) < 1: raise ispBase.IspError("Timeout")
CodecReadTimeout ==
    /\ cphase = "recv"
    /\ line = << >>
    /\ cphase' = "done"
    /\ out' = RaisedTimeout
    /\ lastWait' = TimeoutTicks
    /\ elapsed' = Min(elapsed + TimeoutTicks, ElapsedCap)
    /\ UNCHANGED << cin, line, parser, nread, protoVars, pairVars >>

CodecNext ==
    \/ CodecSend
    \/ CodecReadByte
    \/ CodecReadNoise
    \/ CodecReadTimeout


\* the object as constructed, with one chip and no callback, stays at rest
CodecRest == ProtoInit /\ chip.pageSize = 128 /\ ~hasCallback

InitCodec == CodecInit /\ CodecRest /\ PairIdle

SpecCodec == InitCodec /\ [][CodecNext]_vars

\* the threads' objects as constructed, the single-object view at rest
InitPair == CodecRest /\ CodecIdle /\ PairIdle

SpecPair == InitPair /\ [][PairNext]_vars

(***************************************************************************)
(* Claims about the codec                                                  *)
(***************************************************************************)

\* C1: round trip - the frame built by sendMessage's encoder for any sequence
\* number and payload (the empty payload included), fed to recvMessage, is
\* returned as exactly that payload.
C1_RoundTrip ==
    (cin.scen = "roundtrip" /\ cphase = "done") => out = Returned(cin.payload)

\* C2: resynchronization - a corrupted frame (checksum flipped or token wrong)
\* immediately followed by a valid frame: recvMessage returns the valid
\* frame's payload, whatever the corrupted frame's payload.
C2_Resync ==
    (cin.scen = "resync" /\ cphase = "done") => out = Returned(cin.payload)

\* C5 as stated: with no start marker in the stream recvMessage never runs
\* past the configured read timeout.
C5_NeverPastTimeout ==
    (cin.scen = "noise" /\ cphase = "recv") => elapsed <= TimeoutTicks

\* C5 as amended: with no start marker in the stream, recvMessage stays in
\* Start and never returns a payload; it ends, raising Timeout, exactly when
\* a single read yields no byte within the read timeout, and no single read
\* blocks longer than the read timeout.
C5_TimeoutPerRead ==
    cin.scen = "noise" =>
        /\ parser.state = "Start"
        /\ out.kind # "data"
        /\ lastWait <= TimeoutTicks
        /\ (cphase = "done") <=> (out = RaisedTimeout /\ lastWait = TimeoutTicks)
        /\ (cphase = "recv" /\ nread > 0) => lastWait < TimeoutTicks

C5_Witness ==
    /\ cin.scen = "noise"
    /\ cphase = "done"
    /\ out = RaisedTimeout
    /\ nread >= 2
    /\ elapsed > TimeoutTicks

\* C11: checksum invariant - for every sequence number and payload,
\* sendMessage writes a frame (0x1B, sequence, length high, length low, 0x0E,
\* payload, checksum byte) whose bytes XOR to 0 and whose length field is the
\* big-endian 16-bit payload length.
C11_ChecksumInvariant ==
    (cin.scen = "roundtrip" /\ cphase # "init") =>
        LET frame == LineOf(cin)
            n == Len(cin.payload)
        IN  /\ Len(frame) = n + 6
            /\ frame[3] * 256 + frame[4] = n
            /\ XorOver(frame, 1, Len(frame)) = 0

(***************************************************************************)
(* Claims about the frames accepted                                        *)
(***************************************************************************)
\* the bytes recvMessage has read so far
StreamUsed == Len(LineOf(cin)) - Len(line)

\* C16: accepted frames are valid - a payload of n bytes that recvMessage
\* returns is carried by the last n + 6 bytes read: they start with 0x1B,
\* their fifth byte is 0x0E, their length field (big-endian, 16 bits) is n,
\* the payload follows, and all of them, checksum byte included, XOR to zero;
\* a frame whose checksum byte is flipped is not returned and leaves the
\* parser in Start once its last byte is read, whatever its payload, the
\* empty payload included.
C16_AcceptedFramesValid ==
    /\ (cphase = "done" /\ out.kind = "data") =>
          LET stream == LineOf(cin)
              n == Len(out.data)
              i == StreamUsed - n - 5
          IN  /\ i >= 1
              /\ stream[i] = MESSAGE_START
              /\ stream[i + 2] * 256 + stream[i + 3] = n
              /\ stream[i + 4] = TOKEN
              /\ SubSeq(stream, i + 5, i + 4 + n) = out.data
              /\ XorOver(stream, i, StreamUsed) = 0
    /\ (/\ cin.scen = "resync" /\ cin.corrupt.kind = "checksum"
        /\ StreamUsed = Len(cin.bpayload) + 6) =>
          /\ cphase = "recv"
          /\ parser.state = "Start"
          /\ out = Running

(***************************************************************************)
(* Claims about the connection                                             *)
(***************************************************************************)
\* the payload carried by a frame written
Payload(frame) == SubSeq(frame, 6, Len(frame) - 1)

\* the method o has ended
Ended(o) == call = Idle /\ result.op = o

\* the method that ended was given a port by its connect
Opened == Len(ports) > Len(pre.ports)

Least(S) == CHOOSE k \in S : \A m \in S : k <= m

EnterOk == Answer(<< CMD_ENTER_PROGMODE_ISP, STATUS_CMD_OK >>)

\* C3: handshake contract - connect completes successfully only when the
\* device's reply to the enter-programming-mode frame is [0x10, 0x00]; with a
\* device that replies anything else connect raises the protocol error, and
\* the transport is closed and no longer held.
C3_Handshake ==
    (Ended("connect") /\ Opened) =>
        /\ result.status = "ok" => pre.device.enter = EnterOk
        /\ pre.device.enter # EnterOk =>
              /\ result = Raises("connect", "Failed to enter programming mode", 0)
              /\ ~IsConnected
              /\ ~ports[Len(ports)].open

\* C4: a failed connect leaves the transport closed - whenever connect ends
\* with an error, no transport is held and none it opened is open.
C4_FailedConnectClosed ==
    (Ended("connect") /\ result.status = "error") =>
        /\ ~IsConnected
        /\ \A i \in 1 .. Len(ports) : i \notin released => ~ports[i].open

\* C9: sequence counter - every call of sendMessage leaves the sequence
\* number one higher modulo 256, whatever the call's outcome.
C9_AlwaysIncrements ==
    Ended("sendMessage") => seq = (pre.seq + 1) % 256

LeaveOk == Answer(<< CMD_LEAVE_PROGMODE_ISP, STATUS_CMD_OK >>)

\* C10: leaveISP ownership transfer - on a connected object whose device
\* replies [0x11, 0x00] to [0x11], leaveISP returns the transport still open
\* and the object no longer holds it; with any other reply it raises the
\* protocol error; on an object that is not connected it returns none, writes
\* no frame and changes no state.
C10_LeaveISP ==
    Ended("leaveISP") =>
        /\ pre.serial = 0 =>
              /\ result = Returns("leaveISP", 0)
              /\ tx = << >>
              /\ << serial, seq, ports, released >>
                   = << pre.serial, pre.seq, pre.ports, pre.released >>
        /\ (pre.serial # 0 /\ pre.device.leave = LeaveOk) =>
              /\ result = Returns("leaveISP", pre.serial)
              /\ ~IsConnected
              /\ ports[pre.serial].open
              /\ pre.serial \in released
        /\ (pre.serial # 0 /\ pre.device.leave # LeaveOk) =>
              result = Raises("leaveISP", "Failed to leave programming mode", 0)

\* C12: strict half-duplex without retries - every request given to
\* sendMessage on a connection is written as one frame, exactly once, before
\* the call ends.
C12_HalfDuplex ==
    (Ended("sendMessage") /\ pre.serial # 0) =>
        /\ Len(tx) = 1
        /\ Payload(tx[1]) = req

\* C15: the sync reply is best-effort - connect writes the sync frame
\* (payload [0x01]) and then the enter-programming-mode frame, and it
\* succeeds exactly when the device's reply to the latter is [0x10, 0x00],
\* whatever the device replies to the sync frame, and also when it does not
\* reply to it.
C15_SyncBestEffort ==
    (Ended("connect") /\ Opened) =>
        /\ Len(tx) = 2
        /\ Payload(tx[1]) = << CMD_SIGN_ON >>
        /\ Payload(tx[2]) = EnterProgMode
        /\ (result.status = "ok") <=> (pre.device.enter = EnterOk)

(***************************************************************************)
(* Claims about the flash operations                                       *)
(***************************************************************************)
FlashOps == {"writeFlash", "verifyFlash"}

\* a flash operation has ended on an object that held a port
FlashEnded(o) == Ended(o) /\ pre.serial # 0

\* the offsets below the image's length at which the device's read-back
\* differs from the image
Differs ==
    { k \in 0 .. Len(pre.flashData) - 1 :
        pre.flashData[k + 1] # pre.device.readback[k + 1] }

\* C6: verify detection - verifyFlash fails with the verify error carrying
\* offset K exactly when K is the smallest offset below the image's length at
\* which the read-back differs from the image, and completes without error
\* when no such offset differs.
C6_VerifyDetection ==
    FlashEnded("verifyFlash") =>
        IF Differs = {}
        THEN result = Returns("verifyFlash", 0)
        ELSE result = Raises("verifyFlash", "Verify error", Least(Differs))

\* the program-page commands among the frames written
ProgramFrames ==
    SelectSeq(tx, LAMBDA f : Payload(f) # << >> /\ Payload(f)[1] = CMD_PROGRAM_FLASH_ISP)

\* C7: chunking - for an image of L bytes and a page of P = pageSize * 2
\* bytes writeFlash issues exactly ceil(L / P) program-page commands, the
\* last carrying L mod P image bytes after its 10-byte header (P when L is a
\* multiple of P).
C7_Chunking ==
    FlashEnded("writeFlash") =>
        LET L == Len(pre.flashData)
            P == chip.pageSize * 2
            n == (L + P - 1) \div P
        IN  /\ Len(ProgramFrames) = n
            /\ n > 0 =>
                  Len(Payload(ProgramFrames[n])) - 10 = IF L % P = 0 THEN P ELSE L % P

\* C8: extended addressing - writeFlash and verifyFlash send the load-address
\* command [0x06, 0x80, 0, 0, 0] if and only if pageSize * 2 * pageCount >
\* 0xFFFF, and [0x06, 0x00, 0, 0, 0] otherwise.
C8_ExtendedAddressing ==
    \A o \in FlashOps :
        FlashEnded(o) =>
            /\ tx # << >>
            /\ Payload(tx[1]) =
                  IF chip.pageSize * 2 * chip.pageCount > ExtendedLimit
                  THEN << CMD_LOAD_ADDRESS, 128, 0, 0, 0 >>
                  ELSE << CMD_LOAD_ADDRESS, 0, 0, 0, 0 >>

\* the progress reports of a pass over the steps from + 1 .. from + n of total
Halves(from, n, total) == [k \in 1 .. n |-> << from + k, total >>]

\* C13: progress halves - when writeFlash and then verifyFlash are run on the
\* same image, both passes report the same total, the write pass reports the
\* steps 1 .. total/2 and the verify pass total/2 + 1 .. total.
C13_ProgressHalves ==
    (/\ FlashEnded("verifyFlash") /\ hasCallback
     /\ pre.prev.op = "writeFlash"
     /\ pre.prev.flashData = pre.flashData
     /\ pre.flashData # << >>) =>
        \E half \in 1 .. Len(pre.flashData) :
            /\ pre.prev.progress = Halves(0, half, 2 * half)
            /\ progress = Halves(half, half, 2 * half)

\* the frames written that carry the command cmd
Commands(cmd) ==
    { i \in 1 .. Len(tx) : Payload(tx[i]) # << >> /\ Payload(tx[i])[1] = cmd }

\* C17: load address once, up front - each writeFlash call and each
\* verifyFlash call writes exactly one load-address command, and writes it
\* before any other command of the call.
C17_LoadAddressOnce ==
    \A o \in FlashOps : FlashEnded(o) => Commands(CMD_LOAD_ADDRESS) = {1}

(***************************************************************************)
(* Claims about the transports                                             *)
(***************************************************************************)
\* the method running, or the one that ran last
LastOp == IF call.op # "idle" THEN call.op ELSE result.op

\* C20: no leaked transport - at every point of any sequence of calls, each
\* transport the object ever opened is closed, or was handed to the caller by
\* leaveISP, or is the one transport the object holds; the transport held is
\* open and was not handed out; and a connect on an object that held a
\* transport has closed that transport.
C20_NoLeakedTransport ==
    /\ \A i \in 1 .. Len(ports) :
           ports[i].open => (i \in released \/ i = serial)
    /\ serial # 0 =>
           /\ serial \in 1 .. Len(ports)
           /\ ports[serial].open
           /\ serial \notin released
    /\ (LastOp = "connect" /\ pre.serial # 0) =>
           /\ ~ports[pre.serial].open
           /\ serial # pre.serial

\* connect on an object that holds a port: the old transport closed, the new
\* one held
C20_Witness ==
    /\ LastOp = "connect"
    /\ pre.serial = 1
    /\ Len(ports) = 2
    /\ ~ports[1].open
    /\ 1 \notin released
    /\ serial = 2

====
